---- MODULE Spec2Model ----
(***************************************************************************)
(* Model of pyrobolearn.policies.policy.Policy: the constructor and its    *)
(* property setters, act(), and __call__().                                *)
(*                                                                         *)
(* The inner model's predict() and the post-processors are collaborators   *)
(* outside the class: what they hand back to act() is drawn from Outputs.  *)
(* The state argument and the pre-processors only shape the input of       *)
(* predict(), so they have no part in the policy's own state.              *)
(***************************************************************************)
EXTENDS Integers, Sequences, FiniteSets, TLC

(* Bounds of the model. *)
MaxRate == 2
MaxCnt == 3
MaxActions == 1
MaxOut == 1

VARIABLES
    modelArg,      \* the `model` argument given to __init__
    model,         \* self._model
    rate,          \* self._rate
    cnt,           \* self.cnt
    action_data,   \* self.action_data
    actions,       \* self._actions: the sequence of (sub-)actions and the data they hold
    lastCall,      \* what the latest act() / __call__() invocation did and returned
    completed,     \* how many act() calls have returned so far
    lastPredicted  \* what the latest completed predicting act() returned

vars ==
    <<modelArg, model, rate, cnt, action_data, actions, lastCall, completed, lastPredicted>>

----------------------------------------------------------------------------
(* Data: numpy arrays, torch tensors and anything else (a float), each     *)
(* with its content.                                                       *)

Vals == {<<0, 1>>}

Items ==
    [type : {"ndarray", "tensor"}, val : Vals] \cup {[type |-> "float", val |-> <<0>>]}

NoItem == [type |-> "none", val |-> <<>>]

(* self.action_data: None, a single datum, or a list of data. *)
NoneData == [kind |-> "None", items |-> <<>>]
Single(x) == [kind |-> "single", items |-> <<x>>]
List(xs) == [kind |-> "list", items |-> xs]

(* A call that raised returned nothing. *)
NoReturn == [kind |-> "raised", items |-> <<>>]

(* What predict() followed by the post-processors can hand back. *)
Outputs ==
    {Single(x) : x \in Items}
        \cup {List(xs) : xs \in UNION {[1..n -> Items] : n \in 0..MaxOut}}

Min(a, b) == IF a < b THEN a ELSE b

----------------------------------------------------------------------------
(* Policy.model setter: a Model is wrapped into an Approximator, None and  *)
(* anything else is stored as it is.                                       *)
ModelArgs == {"None", "Model", "Approximator", "Other"}

ModelSetter(m) ==
    IF m # "None" /\ m # "Approximator"
    THEN IF m = "Model" THEN "Approximator" ELSE m
    ELSE m

(* Policy.rate setter accepts any int. Negative rates are left out. *)
Rates == 0..MaxRate

(* The actions given to __init__: discrete or continuous, holding nothing  *)
(* yet. `data` is the datum an action was last given.                      *)
NewAction(d) == [discrete |-> d, data |-> NoItem]

ActionArgs ==
    UNION {[1..n -> {NewAction(TRUE), NewAction(FALSE)}] : n \in 1..MaxActions}

(* k is the index of the call among the act() calls that returned. *)
NoCall ==
    [op |-> "none", apply_action |-> TRUE,
     outcome |-> "none", ret |-> NoReturn, predicted |-> FALSE, applied |-> 0, k |-> 0]

(* Policy.__init__ *)
Init ==
    /\ modelArg \in ModelArgs
    /\ model = ModelSetter(modelArg)
    /\ rate \in Rates
    /\ cnt = 0
    /\ action_data = NoneData
    /\ actions \in ActionArgs
    /\ lastCall = NoCall
    /\ completed = 0
    /\ lastPredicted = NoReturn

----------------------------------------------------------------------------
(* np.argmax / torch.argmax: the index (from 0) of the first maximum. *)
ArgMax(v) ==
    CHOOSE i \in 0..(Len(v) - 1) :
        /\ \A j \in 1..Len(v) : v[j] <= v[i + 1]
        /\ \A j \in 1..i : v[j] < v[i + 1]

(* Policy.__convert_to_numpy *)
ConvertToNumpy(x, to_numpy) ==
    IF to_numpy /\ x.type = "tensor" THEN [x EXCEPT !.type = "ndarray"] ELSE x


(* One turn of the loop of act() over zip(self.actions, self.action_data): *)
(* the action is given its data, a numpy array through action.data and a   *)
(* tensor through action.torch_data, and the entry of self.action_data is  *)
(* rewritten; err tells that the TypeError was raised.                     *)
SetActionData(action, data, to_numpy, return_logits) ==
    IF action.discrete
    THEN IF data.type = "ndarray"
         THEN LET discrete_data == [type |-> "ndarray", val |-> <<ArgMax(data.val)>>]
              IN  [action |-> [action EXCEPT !.data = discrete_data],
                   item |-> IF ~return_logits THEN discrete_data ELSE data,
                   err |-> FALSE]
         ELSE IF data.type = "tensor"
         THEN LET discrete_data == [type |-> "tensor", val |-> <<ArgMax(data.val)>>]
              IN  [action |-> [action EXCEPT !.data = discrete_data],
                   item |-> IF ~return_logits
                            THEN ConvertToNumpy(discrete_data, to_numpy)
                            ELSE ConvertToNumpy(data, to_numpy),
                   err |-> FALSE]
         ELSE [action |-> action, item |-> data, err |-> TRUE]
    ELSE IF data.type = "ndarray"
         THEN [action |-> [action EXCEPT !.data = data], item |-> data, err |-> FALSE]
         ELSE IF data.type = "tensor"
         THEN [action |-> [action EXCEPT !.data = data],
               item |-> ConvertToNumpy(data, to_numpy),
               err |-> FALSE]
         ELSE [action |-> action, item |-> data, err |-> TRUE]

(* The loop itself, from index idx on: it stops at the shorter of the two  *)
(* sequences, or at the first TypeError, which leaves the earlier turns'   *)
(* writes in place.                                                        *)
RECURSIVE SetActions(_, _, _, _, _)
SetActions(idx, acts, items, to_numpy, return_logits) ==
    IF idx > Min(Len(acts), Len(items))
    THEN [actions |-> acts, items |-> items, err |-> FALSE]
    ELSE LET r == SetActionData(acts[idx], items[idx], to_numpy, return_logits)
         IN  IF r.err
             THEN [actions |-> acts, items |-> items, err |-> TRUE]
             ELSE SetActions(idx + 1, [acts EXCEPT ![idx] = r.action],
                             [items EXCEPT ![idx] = r.item], to_numpy, return_logits)

(* "if we should predict": (self.cnt % self.rate) == 0, for a rate >= 1. *)
ShouldPredictShifted(c, r) == ((c + 1) % r) = 0
ShouldPredict(c, r) == (c % r) = 0

(* "if apply_action: self.actions()": how often the actions are called. *)
ApplyActionAlways(apply_action) == 1
ApplyAction(apply_action) == IF apply_action THEN 1 ELSE 0

(* Policy._predict: it needs self.model to have a predict method. *)
CanPredict(m) == m # "None"

Raised(exc, data, acts, predicted) ==
    [outcome |-> exc, cnt |-> cnt, action_data |-> data, actions |-> acts,
     ret |-> NoReturn, predicted |-> predicted, applied |-> 0]

(* Policy.act with the given flags, `out` being what predict() and the     *)
(* post-processors hand back if they run: the policy's fields afterwards,  *)
(* what the call returned or raised, whether predict() ran and how often   *)
(* the actions were called. A list of one element is unwrapped before it   *)
(* is returned; the loop's TypeError leaves the half-written list behind   *)
(* and the tick counter as it was.                                         *)
ActResult(to_numpy, return_logits, apply_action, out) ==
    IF rate = 0
    THEN Raised("ZeroDivisionError", action_data, actions, FALSE)
    ELSE IF ShouldPredict(cnt, rate)
    THEN IF ~CanPredict(model)
         THEN Raised("AttributeError", action_data, actions, FALSE)
         ELSE LET listed == IF out.kind = "list" THEN out.items ELSE <<out.items[1]>>
                  r == SetActions(1, actions, listed, to_numpy, return_logits)
                  data == IF Len(r.items) = 1 THEN Single(r.items[1]) ELSE List(r.items)
              IN  IF r.err
                  THEN Raised("TypeError", List(r.items), r.actions, TRUE)
                  ELSE [outcome |-> "ok", cnt |-> cnt + 1, action_data |-> data,
                        actions |-> r.actions, ret |-> data, predicted |-> TRUE,
                        applied |-> ApplyAction(apply_action)]
    ELSE [outcome |-> "ok", cnt |-> cnt + 1, action_data |-> action_data,
          actions |-> actions, ret |-> action_data, predicted |-> FALSE,
          applied |-> ApplyAction(apply_action)]

(* The effect of a call on the policy and on what the caller sees. *)
Effect(r) ==
    /\ cnt' = r.cnt
    /\ action_data' = r.action_data
    /\ actions' = r.actions
    /\ lastCall'.outcome = r.outcome
    /\ lastCall'.ret = r.ret
    /\ lastCall'.predicted = r.predicted
    /\ lastCall'.applied = r.applied

Called(op, apply_action, r) ==
    [op |-> op, apply_action |-> apply_action, outcome |-> r.outcome, ret |-> r.ret,
     predicted |-> r.predicted, applied |-> r.applied, k |-> completed]

(* What predict() and the post-processors can hand back in the current    *)
(* state: they run only on a predicting tick of a policy with a model.    *)
Predictions ==
    IF rate # 0 /\ ShouldPredict(cnt, rate) /\ CanPredict(model)
    THEN Outputs
    ELSE {NoneData}

(* policy.act(state, deterministic, to_numpy, return_logits, apply_action) *)
Act ==
    /\ completed < MaxCnt
    /\ \E to_numpy, return_logits, apply_action \in BOOLEAN, out \in Predictions :
          \E r \in {ActResult(to_numpy, return_logits, apply_action, out)} :
              /\ lastCall' = Called("act", apply_action, r)
              /\ Effect(r)
              /\ completed' = IF r.outcome = "ok" THEN completed + 1 ELSE completed
              /\ lastPredicted' =
                    IF r.outcome = "ok" /\ r.predicted THEN r.ret ELSE lastPredicted
    /\ UNCHANGED <<modelArg, model, rate>>

(* policy(state, deterministic, to_numpy, return_logits, apply_action):    *)
(* the body returns self.act of the unpacked names args and kwargs, and    *)
(* neither is a name of __call__ or of the module: the NameError is raised *)
(* before act is entered.                                                  *)
Call ==
    /\ \E apply_action \in BOOLEAN :
          lastCall' = Called("call", apply_action,
                             Raised("NameError", action_data, actions, FALSE))
    /\ UNCHANGED <<modelArg, model, rate, cnt, action_data, actions, completed, lastPredicted>>

Next == Act \/ Call

Spec == Init /\ [][Next]_vars

----------------------------------------------------------------------------
(* C1: a __call__ step has the same effect on the policy (tick counter,    *)
(* cached action data, action execution) and the same result as act with   *)
(* the same arguments. The recorded call keeps apply_action only, so the   *)
(* step is asked to be one act could have made with that apply_action and  *)
(* some to_numpy and return_logits: less than the claim, and the code      *)
(* fails it.                                                               *)
C1_CallActsLikeAct ==
    [][lastCall'.op = "call" =>
          \E to_numpy, return_logits \in BOOLEAN, out \in Predictions :
              Effect(ActResult(to_numpy, return_logits, lastCall'.apply_action, out))]_vars

(* C2: for a rate r >= 1, the k-th act call that returns (k = 0, 1, ...)   *)
(* runs predict exactly when k mod r = 0, and every other call returns the *)
(* action data the most recent predicting call returned.                   *)
C2_PredictEveryRateTicks ==
    (lastCall.op = "act" /\ lastCall.outcome = "ok") =>
        /\ rate >= 1
        /\ lastCall.predicted <=> (lastCall.k % rate = 0)
        /\ ~lastCall.predicted => lastCall.ret = lastPredicted

(* C2 happens: the call of index 1 of a policy of rate 2 is inactive and   *)
(* returns the datum the call of index 0 predicted.                        *)
C2_Witness ==
    /\ rate = 2
    /\ lastCall.op = "act" /\ lastCall.outcome = "ok"
    /\ lastCall.k = 1 /\ ~lastCall.predicted
    /\ lastCall.ret.kind = "single" /\ lastCall.ret = lastPredicted

(* C3: a policy created with model=None has a model after construction,    *)
(* and its act can predict.                                                *)
C3_ModelCreatedInside ==
    modelArg = "None" =>
        /\ model # "None"
        /\ ~(lastCall.op = "act" /\ lastCall.outcome = "AttributeError")

(* C4: an act call with apply_action=True that returns has called the      *)
(* actions exactly once, predicting or not, and an act call with           *)
(* apply_action=False has not called them.                                 *)
C4_ActionsCalledIffAsked ==
    lastCall.op = "act" =>
        /\ (lastCall.apply_action /\ lastCall.outcome = "ok") => lastCall.applied = 1
        /\ ~lastCall.apply_action => lastCall.applied = 0

(* C4 happens: an inactive call with apply_action=True called the actions. *)
C4_Witness ==
    /\ lastCall.op = "act" /\ lastCall.outcome = "ok"
    /\ ~lastCall.predicted /\ lastCall.apply_action
    /\ lastCall.applied = 1

====
